---- MODULE Spec2Model ----
(***************************************************************************)
(* Model of neural_nlp/benchmarks/ceiling.py: HoldoutSubjectCeiling,       *)
(* ExtrapolationCeiling (collect, iterate_subsets, extrapolate,            *)
(* extrapolate_neuroid), ci_error and merge.                               *)
(*                                                                         *)
(* An assembly is the sequence of its rows along the 'neuroid' axis, each  *)
(* row a record [neuroid, subject].  Score values produced by the opaque   *)
(* metric are not represented; the quantities derived from them (the       *)
(* bootstrapped means handed to curve_fit) are therefore opaque too, and   *)
(* curve_fit is represented by the outcomes it can have.  Real numbers are *)
(* fixed-point integers with Scale units per 1.0.                          *)
(***************************************************************************)
EXTENDS Integers, Sequences, FiniteSets, TLC

\* ---------------------------------------------------------------- bounds
MaxSubjects == 3
MaxUnits == 2
NumBootstraps == 2
NumInterpolation == 20
MaxCalls == 2
MaxOrders == 6
Scale == 10000

\* ------------------------------------------------------------ variables
VARIABLES
    pc,                     \* position of the running call
    entry,                  \* the method the caller invoked
    raised,                 \* exception that left the entry method
    result,                 \* value the entry method returned
    identifier, assembly, metric,      \* arguments of the running call
    collect_store, call_store,         \* @store of collect and of __call__
    subject_order,          \* iteration order of set(assembly[subject].values)
    subject_subsamples,     \* collect: sizes still to run
    num_subjects,           \* collect: loop variable
    selection_combinations, \* collect: list produced by iterate_subsets
    selection_index,        \* collect: pairs of that list already consumed
    scores,                 \* collect: list of tagged scores
    skipped_selections,     \* collect: (size, subset) pairs its handler skipped
    h_assembly,             \* holdout: the assembly argument
    h_iterate,              \* holdout: subjects still to iterate, in set order
    h_scores,               \* holdout: list of per-subject scores
    h_skipped,              \* holdout: subjects the handlers skipped
    metric_call,            \* holdout: arguments and outcome of the last metric call
    h_result,               \* holdout: outcome of the last completed call
    ceilings,               \* extrapolate: table argument
    neuroid,                \* extrapolate: loop variable i
    neuroid_ceilings, all_bootstrap_params, endpoint_xs,  \* extrapolate lists
    skipped_neuroids,       \* extrapolate: units dropped by `except KeyError`
    num_bootstraps,         \* constructor argument
    curve_fit,              \* outcomes scipy's curve_fit can have on the data
    bootstrap,              \* extrapolate_neuroid: loop variable
    bootstrap_params,       \* extrapolate_neuroid: list of fitted parameters
    fit_log,                \* extrapolate_neuroid: outcome of each round's fit
    ci_call,                \* arguments and result of the last ci_error call
    calls,                  \* number of entry calls made so far
    collect_completed, call_completed, \* what the first completed body returned,
                                       \* by identifier
    prior_collect, prior_call,         \* whether one had, when the running call began
    metric_invoked, holdout_invoked, fit_invoked  \* during the running call

argVars == <<identifier, assembly, metric>>
storeVars == <<collect_store, call_store>>
collectVars == <<subject_order, subject_subsamples, num_subjects,
                 selection_combinations, selection_index, scores,
                 skipped_selections>>
holdoutVars == <<h_assembly, h_iterate, h_scores, h_skipped, metric_call,
                 h_result>>
extrapolateVars == <<ceilings, neuroid, neuroid_ceilings, all_bootstrap_params,
                     endpoint_xs, skipped_neuroids>>
neuroidVars == <<bootstrap, bootstrap_params, fit_log, ci_call>>
envVars == <<num_bootstraps, curve_fit>>
historyVars == <<calls, collect_completed, call_completed, prior_collect,
                 prior_call>>
invokedVars == <<metric_invoked, holdout_invoked, fit_invoked>>
vars == <<pc, entry, raised, result, argVars, storeVars, collectVars,
          holdoutVars, extrapolateVars, neuroidVars, envVars, historyVars,
          invokedVars>>

\* ------------------------------------------------------ generic helpers
Range(s) == {s[i] : i \in DOMAIN s}

RECURSIVE Orderings(_)
Orderings(S) ==
    IF S = {} THEN {<<>>}
    ELSE UNION {{<<x>> \o p : p \in Orderings(S \ {x})} : x \in S}

\* the iteration orders of a set that are explored: the first MaxOrders of
\* its orderings, lexicographically
LexLess(p, q) ==
    \E i \in DOMAIN p : p[i] < q[i] /\ \A j \in 1..(i - 1) : p[j] = q[j]
IterationOrders(S) ==
    {p \in Orderings(S) :
        Cardinality({q \in Orderings(S) : LexLess(q, p)}) < MaxOrders}

RECURSIVE Insert(_, _)
Insert(x, s) ==
    IF s = <<>> THEN <<x>>
    ELSE IF x <= Head(s) THEN <<x>> \o s
    ELSE <<Head(s)>> \o Insert(x, Tail(s))

RECURSIVE Sort(_)
Sort(s) == IF s = <<>> THEN <<>> ELSE Insert(Head(s), Sort(Tail(s)))

\* ---------------------------------------------------------- exceptions
NoException == [type |-> "none", msg |-> <<>>]
Exc(t, m) == [type |-> t, msg |-> m]
\* a message is the sequence of its fragments
Contains(msg, fragment) == \E i \in DOMAIN msg : msg[i] = fragment
KeyErrorZ == Exc("KeyError", <<"'z'">>)

\* ---------------------------------------------------------- assemblies
Identifiers == {"id1", "id2"}

\* N subjects; the first N \div 2 of them own two rows, the others one
AssemblyOf(N) ==
    [i \in 1..(N + N \div 2) |-> [neuroid |-> i, subject |-> ((i - 1) % N) + 1]]
Assemblies == {AssemblyOf(N) : N \in 1..MaxSubjects}

SubjectValues(a) == [i \in DOMAIN a |-> a[i].subject]
SubjectSet(a) == Range(SubjectValues(a))

\* ------------------------------------------------------------- metric
ScoreOutcome == Exc("Score", <<>>)
NoOverlap == Exc("NoOverlapException", <<"no overlap">>)
FoundArray == Exc("ValueError", <<"Found array with", "0 sample(s)">>)
OtherValueError == Exc("ValueError", <<"operands could not be broadcast">>)
OtherKeyError == Exc("KeyError", <<"'y'">>)
MetricOutcomes ==
    {ScoreOutcome, NoOverlap, FoundArray, OtherValueError, OtherKeyError}

NoResult == [kind |-> "none"]
NoHoldoutResult == [kind |-> "none", subjects |-> <<>>, exc |-> NoException]
NoMetricCall == [subject |-> 0, pool |-> <<>>, heldout |-> <<>>,
                 outcome |-> NoException]
NoCiCall == [samples |-> <<>>, center |-> 0, low |-> 0, high |-> 0]
EmptyTable == [kind |-> "collected", scores |-> <<>>, neuroids |-> <<>>]

\* ------------------------------------------------------------- @store
\* result_caching.store(identifier_ignore=['assembly', 'metric']): the key is
\* the function and the identifier; the ignored arguments take no part in it
\* variant: the stored result is never found
StoreHas_never(store, id, a, m) == FALSE

StoreHas(store, id, a, m) == id \in DOMAIN store
StoreGet(store, id, a, m) == store[id]
StorePut(store, id, a, m, value) ==
    [i \in DOMAIN store \cup {id} |-> IF i = id THEN value ELSE store[i]]

\* the record of first completions
FirstCompletion(completed, id, value) ==
    IF id \in DOMAIN completed THEN completed
    ELSE [i \in DOMAIN completed \cup {id} |-> IF i = id THEN value ELSE completed[i]]

\* ------------------------------------------------- combinatorial subsets
\* itertools.combinations(iterable, r): r-length tuples, in the order of the
\* positions of the iterable
\* variant: stops one element early, losing the tuples that end the iterable
RECURSIVE combinations_short(_, _)
combinations_short(iterable, r) ==
    IF r = 0 THEN << <<>> >>
    ELSE IF Len(iterable) <= r THEN <<>>
    ELSE LET with == combinations_short(Tail(iterable), r - 1)
             without == combinations_short(Tail(iterable), r)
         IN  [i \in 1..Len(with) |-> <<Head(iterable)>> \o with[i]] \o without

RECURSIVE combinations(_, _)
combinations(iterable, r) ==
    IF r = 0 THEN << <<>> >>
    ELSE IF Len(iterable) < r THEN <<>>
    ELSE LET with == combinations(Tail(iterable), r - 1)
             without == combinations(Tail(iterable), r)
         IN  [i \in 1..Len(with) |-> <<Head(iterable)>> \o with[i]] \o without

\* variant: range(2, len(subjects)), without the full set
build_subject_subsamples_exclusive(subjects) ==
    [i \in 1..(Cardinality(subjects) - 2) |-> i + 1]

build_subject_subsamples(subjects) ==
    [i \in 1..(Cardinality(subjects) - 1) |-> i + 1]

\* the (selections, sub_assembly) pairs the generator yields, in order
iterate_subsets(a, order, k) ==
    LET subject_combinations == combinations(order, k)
    IN  [i \in 1..Len(subject_combinations) |->
            [sub_subjects |-> subject_combinations[i],
             sub_assembly |-> SelectSeq(a, LAMBDA row :
                 row.subject \in Range(subject_combinations[i]))]]

\* ------------------------------------------------ HoldoutSubjectCeiling
\* outcome of one pass through the try block for a held-out subject
\* variant: every ValueError is swallowed
IsSkip_any_value_error(outcome) ==
    outcome.type \in {"NoOverlapException", "ValueError"}

IsSkip(outcome) ==
    \/ outcome.type = "NoOverlapException"
    \/ outcome.type = "ValueError" /\ Contains(outcome.msg, "Found array with")

subject_assembly_of(a, subject) ==
    SelectSeq(a, LAMBDA row : row.subject = subject)
\* variant: the pool is not reduced by the held-out subject
pool_assembly_of_all(a, subject) == a

pool_assembly_of(a, subject) ==
    LET subject_pool == SubjectSet(a) \ {subject}
    IN  SelectSeq(a, LAMBDA row : row.subject \in subject_pool)

\* the tagged score collect appends for a returned holdout score
TaggedScore(k, selections) == [num_subjects |-> k, sub_subject |-> selections]

\* collect's handler around the holdout call
\* variant: no KeyError is swallowed
CollectSwallows_none(e) == FALSE

CollectSwallows(e) == e.type = "KeyError" /\ e.msg = <<"'z'">>

\* an exception leaves the entry method
Propagate(e) ==
    /\ pc' = "raised"
    /\ raised' = e
    /\ result' = NoResult

\* HoldoutSubjectCeiling.__call__ raises e into collect's try block
HoldoutRaises(e) ==
    /\ h_result' = [kind |-> "raised", subjects |-> <<>>, exc |-> e]
    /\ IF CollectSwallows(e)
       THEN /\ pc' = "collect"   \* continue
            /\ selection_index' = selection_index + 1
            /\ skipped_selections' = skipped_selections \cup
                   {<<num_subjects, Range(
                       selection_combinations[selection_index + 1].sub_subjects)>>}
            /\ UNCHANGED <<raised, result>>
       ELSE /\ Propagate(e)
            /\ UNCHANGED <<selection_index, skipped_selections>>
    /\ UNCHANGED scores

HoldoutSubject ==
    /\ pc = "holdout"
    /\ h_iterate # <<>>
    /\ \E outcome \in metric :
        LET subject == Head(h_iterate)
            subject_assembly == subject_assembly_of(h_assembly, subject)
            pool_assembly == pool_assembly_of(h_assembly, subject)
        IN  /\ h_iterate' = Tail(h_iterate)
            /\ metric_call' = [subject |-> subject, pool |-> pool_assembly,
                               heldout |-> subject_assembly, outcome |-> outcome]
            /\ metric_invoked' = TRUE
            /\ IF outcome.type = "Score"
               THEN /\ h_scores' = Append(h_scores, [subject |-> subject])
                    /\ UNCHANGED <<pc, raised, result, h_result, h_skipped,
                                   selection_index, scores, skipped_selections>>
               ELSE IF IsSkip(outcome)
               THEN /\ h_skipped' = h_skipped \cup {subject}   \* continue
                    /\ UNCHANGED <<pc, raised, result, h_result, h_scores,
                                   selection_index, scores, skipped_selections>>
               ELSE /\ HoldoutRaises(outcome)
                    /\ UNCHANGED <<h_scores, h_skipped>>
    /\ UNCHANGED <<entry, argVars, storeVars, subject_order, subject_subsamples,
                   num_subjects, selection_combinations, h_assembly,
                   extrapolateVars, neuroidVars, envVars, historyVars,
                   holdout_invoked, fit_invoked>>

\* Score.merge(*scores), then the aggregation over the subject axis
HoldoutMerge ==
    /\ pc = "holdout"
    /\ h_iterate = <<>>
    /\ IF h_scores = <<>>
       THEN HoldoutRaises(KeyErrorZ)   \* nothing to merge
       ELSE /\ h_result' = [kind |-> "returned",
                            subjects |-> [i \in DOMAIN h_scores |-> h_scores[i].subject],
                            exc |-> NoException]
            /\ scores' = Append(scores,
                   TaggedScore(num_subjects,
                       selection_combinations[selection_index + 1].sub_subjects))
            /\ selection_index' = selection_index + 1
            /\ pc' = "collect"
            /\ UNCHANGED <<raised, result, skipped_selections>>
    /\ UNCHANGED <<entry, argVars, storeVars, subject_order, subject_subsamples,
                   num_subjects, selection_combinations, h_assembly, h_iterate,
                   h_scores, h_skipped, metric_call, extrapolateVars, neuroidVars,
                   envVars, historyVars, invokedVars>>

\* ------------------------------------------- ExtrapolationCeiling.collect
\* for num_subjects in subject_subsamples: selection_combinations = ...
CollectNumSubjects ==
    /\ pc = "collect"
    /\ selection_index = Len(selection_combinations)
    /\ subject_subsamples # <<>>
    /\ num_subjects' = Head(subject_subsamples)
    /\ subject_subsamples' = Tail(subject_subsamples)
    /\ selection_combinations' =
           iterate_subsets(assembly, subject_order, Head(subject_subsamples))
    /\ selection_index' = 0
    /\ UNCHANGED <<pc, entry, raised, result, argVars, storeVars, subject_order,
                   scores, skipped_selections, holdoutVars, extrapolateVars, neuroidVars, envVars,
                   historyVars, invokedVars>>

\* for selections, sub_assembly in selection_combinations: holdout_ceiling(...)
CollectSelection ==
    /\ pc = "collect"
    /\ selection_index < Len(selection_combinations)
    /\ LET sub_assembly == selection_combinations[selection_index + 1].sub_assembly
       IN  /\ h_assembly' = sub_assembly
           /\ h_iterate' = SelectSeq(subject_order,
                                      LAMBDA s : s \in SubjectSet(sub_assembly))
    /\ h_scores' = <<>>
    /\ h_skipped' = {}
    /\ metric_call' = NoMetricCall
    /\ h_result' = NoHoldoutResult
    /\ holdout_invoked' = TRUE
    /\ pc' = "holdout"
    /\ UNCHANGED <<entry, raised, result, argVars, storeVars, collectVars,
                   extrapolateVars, neuroidVars, envVars, historyVars,
                   metric_invoked, fit_invoked>>

\* the state in which extrapolate(table) starts
EnterExtrapolate(table) ==
    /\ ceilings' = table
    /\ neuroid' = 0
    /\ neuroid_ceilings' = <<>>
    /\ all_bootstrap_params' = <<>>
    /\ endpoint_xs' = <<>>
    /\ skipped_neuroids' = {}
    /\ pc' = "extrapolate"

\* the merged table: its neuroid axis holds the rows of every subject of a
\* collected subset
merged_table(a, tagged) ==
    LET collected == UNION {Range(tagged[i].sub_subject) : i \in DOMAIN tagged}
        rows == SelectSeq(a, LAMBDA row : row.subject \in collected)
    IN  [kind |-> "collected", scores |-> tagged,
         neuroids |-> [i \in DOMAIN rows |-> rows[i].neuroid]]

\* Score.merge(*scores), post_process (None by default), and the @store write;
\* __call__ then passes the table on to extrapolate
CollectMerge ==
    /\ pc = "collect"
    /\ selection_index = Len(selection_combinations)
    /\ subject_subsamples = <<>>
    /\ IF scores = <<>>
       THEN /\ Propagate(KeyErrorZ)   \* nothing to merge, outside any try
            /\ UNCHANGED <<storeVars, extrapolateVars, collect_completed>>
       ELSE LET table == merged_table(assembly, scores)
            IN  /\ collect_store' =
                       StorePut(collect_store, identifier, assembly, metric, table)
                /\ collect_completed' = FirstCompletion(collect_completed,
                                                        identifier, table)
                /\ UNCHANGED <<raised, call_store>>
                /\ IF entry = "collect"
                   THEN /\ pc' = "done"
                        /\ result' = table
                        /\ UNCHANGED extrapolateVars
                   ELSE /\ EnterExtrapolate(table)
                        /\ UNCHANGED result
    /\ UNCHANGED <<entry, argVars, collectVars, holdoutVars, neuroidVars, envVars,
                   calls, call_completed, prior_collect, prior_call, invokedVars>>

\* ------------------------------------------------------------ numerics
\* e^(-1/tau0) in fixed point, for the decay constants the model draws
DecayPerStep(tau0) ==
    IF tau0 = 1 THEN (36788 * Scale) \div 100000
    ELSE (60653 * Scale) \div 100000

\* e^(-x/tau0) for x = 0 .. n-1, as the sequence of its values
RECURSIVE ExpNeg(_, _)
ExpNeg(n, tau0) ==
    IF n = 1 THEN <<Scale>>
    ELSE LET shorter == ExpNeg(n - 1, tau0)
         IN  Append(shorter, (shorter[n - 1] * DecayPerStep(tau0)) \div Scale)

\* v(interpolation_xs, v0, tau0) = v0 * (1 - exp(-x / tau0)); entry x + 1 is v(x)
v(n, v0, tau0) ==
    LET decay == ExpNeg(n, tau0)
    IN  [i \in 1..n |-> (v0 * (Scale - decay[i])) \div Scale]

\* np.median
median(s) ==
    LET sorted == Sort(s)
        n == Len(sorted)
    IN  IF n % 2 = 1 THEN sorted[(n + 1) \div 2]
        ELSE (sorted[n \div 2] + sorted[n \div 2 + 1]) \div 2

\* np.nanpercentile(samples, q), linear interpolation; q in 1/1000 percent
nanpercentile(samples, q) ==
    LET sorted == Sort(samples)
        n == Len(sorted)
        pos == q * (n - 1)
        lo == pos \div 100000
        frac == pos % 100000
    IN  IF lo + 1 >= n THEN sorted[n]
        ELSE sorted[lo + 1] + ((sorted[lo + 2] - sorted[lo + 1]) * frac) \div 100000

\* confidence=.95, in 1/1000
Confidence == 950

\* low, high = 100 * (1 - confidence) / 2, 100 * 1 - ((1 - confidence) / 2)
ci_levels(confidence) ==
    [low |-> 50 * (1000 - confidence),
     high |-> 100 * 1000 - ((1000 - confidence) \div 2)]

ci_error(samples, center, confidence) ==
    LET levels == ci_levels(confidence)
        confidence_below == nanpercentile(samples, levels.low)
        confidence_above == nanpercentile(samples, levels.high)
    IN  [low |-> center - confidence_below, high |-> confidence_above - center]

asymptote_threshold == (5 * Scale) \div 10000

\* ------------------------------------------------------------ curve_fit
RuntimeError == [type |-> "RuntimeError", v0 |-> 0, tau0 |-> 0]
Fitted(v0, tau0) == [type |-> "params", v0 |-> v0, tau0 |-> tau0]
\* bounds=([0, -inf], [1, inf]): v0 within [0, 1]
FitOutcomes ==
    {RuntimeError, Fitted((8 * Scale) \div 10, 1), Fitted((5 * Scale) \div 10, 2)}

\* ------------------------------------------------- extrapolate_neuroid
\* for i in trange(len(ceilings['neuroid'])): extrapolate_neuroid(...)
ExtrapolateNeuroid ==
    /\ pc = "extrapolate"
    /\ neuroid < Len(ceilings.neuroids)
    /\ bootstrap' = 0
    /\ bootstrap_params' = <<>>
    /\ fit_log' = <<>>
    /\ pc' = "neuroid"
    /\ UNCHANGED <<entry, raised, result, argVars, storeVars, collectVars,
                   holdoutVars, extrapolateVars, ci_call, envVars, historyVars,
                   invokedVars>>

\* variant: a round that fails gets default parameters
after_fit_default(params, round, outcome) ==
    IF outcome.type = "RuntimeError"
    THEN Append(params, [bootstrap |-> round, v0 |-> 0, tau0 |-> 1])
    ELSE Append(params, [bootstrap |-> round, v0 |-> outcome.v0,
                         tau0 |-> outcome.tau0])

\* the try block around self.fit: bootstrap_params after one round
after_fit(params, round, outcome) ==
    IF outcome.type = "RuntimeError"
    THEN params   \* optimal parameters not found: continue
    ELSE Append(params, [bootstrap |-> round, v0 |-> outcome.v0,
                         tau0 |-> outcome.tau0])

\* one pass of `for bootstrap in range(self.num_bootstraps)`
NeuroidBootstrap ==
    /\ pc = "neuroid"
    /\ bootstrap < num_bootstraps
    /\ \E outcome \in curve_fit :
        /\ fit_log' = Append(fit_log, outcome)
        /\ bootstrap_params' = after_fit(bootstrap_params, bootstrap, outcome)
    /\ bootstrap' = bootstrap + 1
    /\ fit_invoked' = TRUE
    /\ UNCHANGED <<pc, entry, raised, result, argVars, storeVars, collectVars,
                   holdoutVars, extrapolateVars, ci_call, envVars, historyVars,
                   metric_invoked, holdout_invoked>>

\* ys = np.array([v(interpolation_xs, *params) for params in bootstrap_params])
ys_of(params) ==
    [r \in DOMAIN params |-> v(NumInterpolation, params[r].v0, params[r].tau0)]
\* np.median(ys, axis=0)
median_ys_of(ys) ==
    [i \in 1..NumInterpolation |-> median([r \in DOMAIN ys |-> ys[r][i]])]
\* np.where(np.diff(median_ys) < asymptote_threshold)[0]
below_threshold(median_ys) ==
    {x \in 0..(NumInterpolation - 2) :
        median_ys[x + 2] - median_ys[x + 1] < asymptote_threshold}
\* .min()
min(S) == CHOOSE x \in S : \A y \in S : x <= y

\* the tail of extrapolate_neuroid, and the rest of extrapolate's try block
NeuroidScore ==
    /\ pc = "neuroid"
    /\ bootstrap = num_bootstraps
    /\ LET id == ceilings.neuroids[neuroid + 1]
       IN
       IF bootstrap_params = <<>>
       THEN \* merge_data_arrays of nothing: KeyError, caught by extrapolate
            /\ skipped_neuroids' = skipped_neuroids \cup {id}
            /\ neuroid' = neuroid + 1
            /\ pc' = "extrapolate"
            /\ UNCHANGED <<raised, result, neuroid_ceilings, all_bootstrap_params,
                           endpoint_xs, ci_call>>
       ELSE LET ys == ys_of(bootstrap_params)
                where == below_threshold(median_ys_of(ys))
            IN
            IF where = {}
            THEN \* .min() of an empty array
                 /\ Propagate(Exc("ValueError", <<"zero-size array">>))
                 /\ UNCHANGED <<neuroid, neuroid_ceilings, all_bootstrap_params,
                                endpoint_xs, skipped_neuroids, ci_call>>
            ELSE
            LET end_x == min(where)
                center == median([r \in DOMAIN bootstrap_params |->
                                     bootstrap_params[r].v0])
                samples == [r \in DOMAIN ys |-> ys[r][end_x + 1]]
                error == ci_error(samples, center, Confidence)
            IN  /\ ci_call' = [samples |-> samples, center |-> center,
                               low |-> error.low, high |-> error.high]
                /\ neuroid_ceilings' = Append(neuroid_ceilings,
                       [neuroid |-> id, center |-> center,
                        error_low |-> error.low, error_high |-> error.high])
                /\ all_bootstrap_params' = Append(all_bootstrap_params,
                       [neuroid |-> id, params |-> bootstrap_params])
                /\ endpoint_xs' = Append(endpoint_xs,
                       [neuroid |-> id, endpoint_x |-> end_x])
                /\ neuroid' = neuroid + 1
                /\ pc' = "extrapolate"
                /\ UNCHANGED <<raised, result, skipped_neuroids>>
    /\ UNCHANGED <<entry, argVars, storeVars, collectVars, holdoutVars, ceilings,
                   bootstrap, bootstrap_params, fit_log, envVars, historyVars,
                   invokedVars>>

\* ---------------------------------------------------- merge, aggregate
\* _coords_match(elements, dim='bootstrap', match_values=True)
bootstrap_coords_match(elements) ==
    \A e \in DOMAIN elements :
        [r \in DOMAIN elements[e].params |-> elements[e].params[r].bootstrap]
      = [r \in DOMAIN elements[1].params |-> elements[1].params[r].bootstrap]

\* the exception merge(*elements) raises for these lists, if any
merge_error(ceilings_list, params_list) ==
    IF ceilings_list = <<>> THEN Exc("IndexError", <<"tuple index out of range">>)
    ELSE IF ~bootstrap_coords_match(params_list) THEN Exc("AssertionError", <<>>)
    ELSE NoException

aggregate_neuroid_ceilings(ceilings_list, params_list, endpoints) ==
    LET over(f(_)) == median([e \in DOMAIN ceilings_list |-> f(e)])
        first == params_list[1].params
    IN  [kind |-> "ceiling",
         center |-> over(LAMBDA e : ceilings_list[e].center),
         error_low |-> over(LAMBDA e : ceilings_list[e].error_low),
         error_high |-> over(LAMBDA e : ceilings_list[e].error_high),
         bootstrapped_params |->
            [r \in DOMAIN first |->
                [bootstrap |-> first[r].bootstrap,
                 v0 |-> over(LAMBDA e : params_list[e].params[r].v0),
                 tau0 |-> over(LAMBDA e : params_list[e].params[r].tau0)]],
         endpoint_x |-> over(LAMBDA e : endpoints[e].endpoint_x),
         raw |-> [neuroid_ceilings |-> ceilings_list,
                  bootstrapped_params |-> params_list,
                  endpoint_x |-> endpoints]]

\* the three merges and the aggregation that end extrapolate; __call__ returns
\* the ceiling through its @store
ExtrapolateMerge ==
    /\ pc = "extrapolate"
    /\ neuroid = Len(ceilings.neuroids)
    /\ LET e == merge_error(neuroid_ceilings, all_bootstrap_params)
       IN  IF e # NoException
           THEN /\ Propagate(e)
                /\ UNCHANGED <<call_store, call_completed>>
           ELSE LET ceiling == aggregate_neuroid_ceilings(neuroid_ceilings,
                                   all_bootstrap_params, endpoint_xs)
                IN  /\ pc' = "done"
                    /\ result' = ceiling
                    /\ raised' = NoException
                    /\ IF entry = "__call__"
                       THEN /\ call_store' = StorePut(call_store, identifier,
                                                      assembly, metric, ceiling)
                            /\ call_completed' = FirstCompletion(call_completed,
                                                              identifier, ceiling)
                       ELSE UNCHANGED <<call_store, call_completed>>
    /\ UNCHANGED <<entry, argVars, collect_store, collectVars, holdoutVars,
                   extrapolateVars, neuroidVars, envVars, calls, collect_completed,
                   prior_collect, prior_call, invokedVars>>

\* ------------------------------------------------------------ the calls
\* locals of a call that has not run yet
FreshCollect ==
    /\ subject_order' = <<>>
    /\ subject_subsamples' = <<>>
    /\ num_subjects' = 0
    /\ selection_combinations' = <<>>
    /\ selection_index' = 0
    /\ scores' = <<>>
    /\ skipped_selections' = {}
FreshHoldout ==
    /\ h_assembly' = <<>>
    /\ h_iterate' = <<>>
    /\ h_scores' = <<>>
    /\ h_skipped' = {}
    /\ metric_call' = NoMetricCall
    /\ h_result' = NoHoldoutResult
FreshExtrapolate ==
    /\ ceilings' = EmptyTable
    /\ neuroid' = 0
    /\ neuroid_ceilings' = <<>>
    /\ all_bootstrap_params' = <<>>
    /\ endpoint_xs' = <<>>
    /\ skipped_neuroids' = {}
FreshNeuroid ==
    /\ bootstrap' = 0
    /\ bootstrap_params' = <<>>
    /\ fit_log' = <<>>
    /\ ci_call' = NoCiCall

\* the first lines of collect's body
EnterCollect(a, order) ==
    /\ subject_order' = order
    /\ subject_subsamples' = build_subject_subsamples(SubjectSet(a))
    /\ num_subjects' = 0
    /\ selection_combinations' = <<>>
    /\ selection_index' = 0
    /\ scores' = <<>>
    /\ skipped_selections' = {}
    /\ pc' = "collect"

\* ExtrapolationCeiling.__call__(identifier, assembly, metric), both @store
\* wrappers included
CallMetrics == {{ScoreOutcome}, {NoOverlap}}
CallAssemblies == {AssemblyOf(1), AssemblyOf(2)}

Call ==
    /\ pc \in {"idle", "done", "raised"}
    /\ calls < MaxCalls
    /\ \E id \in Identifiers, a \in CallAssemblies, m \in CallMetrics :
        /\ identifier' = id
        /\ assembly' = a
        /\ metric' = m
        /\ prior_call' = (id \in DOMAIN call_completed)
        /\ prior_collect' = (id \in DOMAIN collect_completed)
        /\ IF StoreHas(call_store, id, a, m)
           THEN /\ pc' = "done"
                /\ result' = StoreGet(call_store, id, a, m)
                /\ FreshCollect
                /\ FreshExtrapolate
           ELSE /\ result' = NoResult
                /\ IF StoreHas(collect_store, id, a, m)
                   THEN /\ EnterExtrapolate(StoreGet(collect_store, id, a, m))
                        /\ FreshCollect
                   ELSE /\ \E order \in IterationOrders(SubjectSet(a)) :
                               EnterCollect(a, order)
                        /\ FreshExtrapolate
    /\ entry' = "__call__"
    /\ raised' = NoException
    /\ calls' = calls + 1
    /\ metric_invoked' = FALSE
    /\ holdout_invoked' = FALSE
    /\ fit_invoked' = FALSE
    /\ FreshHoldout
    /\ FreshNeuroid
    /\ UNCHANGED <<storeVars, envVars, collect_completed, call_completed>>

\* the process dies during a top-level call: what the stores hold survives
Crash ==
    /\ entry = "__call__"
    /\ pc \in {"collect", "holdout", "extrapolate", "neuroid"}
    /\ pc' = "idle"
    /\ result' = NoResult
    /\ raised' = NoException
    /\ FreshCollect
    /\ FreshHoldout
    /\ FreshExtrapolate
    /\ FreshNeuroid
    /\ UNCHANGED <<entry, argVars, storeVars, envVars, historyVars, invokedVars>>

\* collect(identifier, assembly, metric) called on its own, with an opaque metric
CallCollect ==
    /\ pc = "idle"
    /\ \E a \in Assemblies :
        /\ assembly' = a
        /\ \E order \in IterationOrders(SubjectSet(a)) : EnterCollect(a, order)
    /\ identifier' = "id1"
    /\ metric' = MetricOutcomes
    /\ entry' = "collect"
    /\ calls' = calls + 1
    /\ UNCHANGED <<raised, result, storeVars, holdoutVars, extrapolateVars,
                   neuroidVars, envVars, collect_completed, call_completed,
                   prior_collect, prior_call, invokedVars>>

\* a collected table with the given number of units
TableOf(units) ==
    [kind |-> "collected",
     scores |-> [k \in 1..2 |->
                    [num_subjects |-> k + 1, sub_subject |-> [i \in 1..(k + 1) |-> i]]],
     neuroids |-> [i \in 1..units |-> i]]

\* extrapolate(ceilings) called on its own
CallExtrapolate ==
    /\ pc = "idle"
    /\ \E units \in 1..MaxUnits : EnterExtrapolate(TableOf(units))
    /\ entry' = "extrapolate"
    /\ calls' = calls + 1
    /\ UNCHANGED <<raised, result, argVars, storeVars, collectVars, holdoutVars,
                   neuroidVars, envVars, collect_completed, call_completed,
                   prior_collect, prior_call, invokedVars>>

\* ------------------------------------------------------- specifications
Idle ==
    /\ pc = "idle"
    /\ entry = "none"
    /\ raised = NoException
    /\ result = NoResult
    /\ identifier = "id1"
    /\ assembly = <<>>
    /\ metric = {}
    /\ collect_store = <<>>
    /\ call_store = <<>>
    /\ subject_order = <<>>
    /\ subject_subsamples = <<>>
    /\ num_subjects = 0
    /\ selection_combinations = <<>>
    /\ selection_index = 0
    /\ scores = <<>>
    /\ skipped_selections = {}
    /\ h_assembly = <<>>
    /\ h_iterate = <<>>
    /\ h_scores = <<>>
    /\ h_skipped = {}
    /\ metric_call = NoMetricCall
    /\ h_result = NoHoldoutResult
    /\ ceilings = EmptyTable
    /\ neuroid = 0
    /\ neuroid_ceilings = <<>>
    /\ all_bootstrap_params = <<>>
    /\ endpoint_xs = <<>>
    /\ skipped_neuroids = {}
    /\ num_bootstraps = NumBootstraps
    /\ bootstrap = 0
    /\ bootstrap_params = <<>>
    /\ fit_log = <<>>
    /\ ci_call = NoCiCall
    /\ calls = 0
    /\ collect_completed = <<>>
    /\ call_completed = <<>>
    /\ prior_collect = FALSE
    /\ prior_call = FALSE
    /\ metric_invoked = FALSE
    /\ holdout_invoked = FALSE
    /\ fit_invoked = FALSE

\* the memoized pipeline, on data whose fits all converge to the same curve
Init == Idle /\ curve_fit = {Fitted((8 * Scale) \div 10, 1)}
Next ==
    \/ Call
    \/ Crash
    \/ CollectNumSubjects
    \/ CollectSelection
    \/ HoldoutSubject
    \/ HoldoutMerge
    \/ CollectMerge
    \/ ExtrapolateNeuroid
    \/ NeuroidBootstrap
    \/ NeuroidScore
    \/ ExtrapolateMerge
Spec == Init /\ [][Next]_vars

\* one collect call, every outcome of the metric possible at every invocation
InitCollect == Idle /\ curve_fit = FitOutcomes
NextCollect ==
    \/ CallCollect
    \/ CollectNumSubjects
    \/ CollectSelection
    \/ HoldoutSubject
    \/ HoldoutMerge
    \/ CollectMerge
SpecCollect == InitCollect /\ [][NextCollect]_vars

\* one extrapolate call, every outcome of the fit possible in every round
InitExtrapolate == Idle /\ curve_fit = FitOutcomes
NextExtrapolate ==
    \/ CallExtrapolate
    \/ ExtrapolateNeuroid
    \/ NeuroidBootstrap
    \/ NeuroidScore
    \/ ExtrapolateMerge
SpecExtrapolate == InitExtrapolate /\ [][NextExtrapolate]_vars

\* =================================================================== claims
\* the failure kinds the holdout loop is said to skip
ClaimSkipKinds == {NoOverlap, FoundArray}
HoldoutScored == {h_scores[i].subject : i \in DOMAIN h_scores}

\* C3: in HoldoutSubjectCeiling.__call__ a NoOverlap or 'Found array with'
\* ValueError skips only that subject and the loop goes on with the remaining
\* subjects, any other exception of the metric leaves the call, and the merged
\* result has exactly one subject entry for each subject that was not skipped.
C3_HoldoutSkipsOnlyThatSubject ==
    metric_call # NoMetricCall =>
        LET o == metric_call.outcome
            s == metric_call.subject
        IN  /\ o \in ClaimSkipKinds =>
                   /\ s \in h_skipped
                   /\ s \notin HoldoutScored
                   /\ h_result.exc # o
                   /\ raised # o
            /\ (o \notin ClaimSkipKinds /\ o # ScoreOutcome) =>
                   /\ h_result = [kind |-> "raised", subjects |-> <<>>, exc |-> o]
                   /\ s \notin h_skipped
            /\ o = ScoreOutcome => s \in HoldoutScored
            /\ h_skipped \cap HoldoutScored = {}
            /\ Len(h_scores) = Cardinality(HoldoutScored)
            /\ h_result.exc \in {NoException, KeyErrorZ} =>
                   HoldoutScored \cup h_skipped \cup Range(h_iterate)
                       = SubjectSet(h_assembly)
            /\ h_result.kind = "returned" =>
                   /\ Range(h_result.subjects) = SubjectSet(h_assembly) \ h_skipped
                   /\ Len(h_result.subjects)
                          = Cardinality(SubjectSet(h_assembly) \ h_skipped)

\* a call over three subjects that skipped one of them on a 'Found array with'
\* error and returned a score for the other two
C3_Witness ==
    /\ h_result.kind = "returned"
    /\ Cardinality(SubjectSet(h_assembly)) = 3
    /\ Cardinality(h_skipped) = 1
    /\ Len(h_result.subjects) = 2
    /\ metric_call.outcome = FoundArray

\* the (size, subset) pairs of a subject set, and those of sizes below k
PairsOfSize(subjects, k) ==
    {<<k, S>> : S \in {T \in SUBSET subjects : Cardinality(T) = k}}
AllPairs(subjects) ==
    UNION {PairsOfSize(subjects, k) : k \in 2..Cardinality(subjects)}
\* the pairs collect's loops have finished with
Processed ==
    UNION {PairsOfSize(SubjectSet(assembly), k) : k \in 2..(num_subjects - 1)}
    \cup {<<num_subjects, Range(selection_combinations[i].sub_subjects)>> :
              i \in 1..selection_index}
Appended ==
    {<<scores[i].num_subjects, Range(scores[i].sub_subject)>> : i \in DOMAIN scores}
\* the pair whose sub-assembly the last holdout call received
HoldoutPair == <<Cardinality(SubjectSet(h_assembly)), SubjectSet(h_assembly)>>

\* C4: collect runs the holdout ceiling once for every (k, subset) with k over
\* exactly 2..N and subset over the size-k subsets; a pair whose holdout call
\* raises KeyError 'z' is skipped and collection goes on, any other error ends
\* collect and reaches the caller; the table holds exactly one entry, tagged
\* with num_subjects = k and the subset, for each pair that was not skipped.
C4_CollectEveryPairOnce ==
    entry = "collect" =>
        LET appended == Appended
            processed == Processed
        IN  /\ Len(scores) = Cardinality(appended)
            /\ \A i \in DOMAIN scores :
                   Len(scores[i].sub_subject) = scores[i].num_subjects
            /\ appended \cap skipped_selections = {}
            /\ appended \cup skipped_selections = processed
            /\ pc = "done" =>
                   /\ processed = AllPairs(SubjectSet(assembly))
                   /\ result.scores = scores
            /\ (h_result.kind = "raised" /\ h_result.exc = KeyErrorZ
                    /\ pc \in {"collect", "done"}) =>
                   HoldoutPair \in skipped_selections
            /\ (h_result.kind = "raised" /\ h_result.exc # KeyErrorZ) =>
                   /\ pc = "raised"
                   /\ raised = h_result.exc
                   /\ result = NoResult
                   /\ identifier \notin DOMAIN collect_store

\* a completed collect over three subjects with a skipped pair and two kept ones
C4_Witness ==
    /\ entry = "collect"
    /\ pc = "done"
    /\ Cardinality(SubjectSet(assembly)) = 3
    /\ Cardinality(skipped_selections) = 2
    /\ Len(result.scores) = 2

RowSet(a) == Range(a)

\* C5: for every subject the holdout loop iterates, the metric receives as
\* held-out partition exactly the rows of that subject and as pool exactly the
\* rows of the other subjects: disjoint, together all rows of the assembly, the
\* held-out subject absent from its pool.
C5_HoldoutPartition ==
    metric_call # NoMetricCall =>
        LET s == metric_call.subject
            heldout == metric_call.heldout
            pool == metric_call.pool
        IN  /\ s \in SubjectSet(h_assembly)
            /\ s \notin Range(h_iterate)
            /\ RowSet(heldout) = {row \in RowSet(h_assembly) : row.subject = s}
            /\ RowSet(pool) = {row \in RowSet(h_assembly) : row.subject # s}
            /\ RowSet(heldout) \cap RowSet(pool) = {}
            /\ RowSet(heldout) \cup RowSet(pool) = RowSet(h_assembly)
            /\ Len(heldout) + Len(pool) = Len(h_assembly)
            /\ s \notin SubjectSet(pool)

\* a metric call holding out a two-row subject against a pool of two subjects
C5_Witness ==
    /\ metric_call # NoMetricCall
    /\ Len(metric_call.heldout) = 2
    /\ Cardinality(SubjectSet(metric_call.pool)) = 2

HoldoutAllSkipped ==
    /\ h_assembly # <<>>
    /\ h_iterate = <<>>
    /\ h_skipped = SubjectSet(h_assembly)
    /\ pc # "holdout"

\* C7 as stated: a holdout call that skipped every subject raises, and that
\* ends the computation.
C7_AllSkippedIsFatal ==
    HoldoutAllSkipped => (h_result.kind = "raised" /\ pc = "raised")

\* C7 amended: a holdout call that skipped every subject raises KeyError 'z'
\* instead of returning a score; collect takes that error as its skip of the
\* pair: no entry is added, the loop moves past the pair, and collect itself
\* raises only if it ends with no entry at all.
C7_AllSkippedRaisesAndCollectSkips ==
    HoldoutAllSkipped =>
        /\ h_result = [kind |-> "raised", subjects |-> <<>>, exc |-> KeyErrorZ]
        /\ HoldoutPair \notin Appended
        /\ HoldoutPair \in skipped_selections
        /\ HoldoutPair \in Processed
        /\ pc = "raised" =>
               /\ raised = KeyErrorZ
               /\ scores = <<>>
               /\ subject_subsamples = <<>>
               /\ selection_index = Len(selection_combinations)

\* collect returned a table although its last holdout call skipped every subject
C7_Witness ==
    /\ HoldoutAllSkipped
    /\ h_result.kind = "raised"
    /\ pc = "done"
    /\ Len(result.scores) >= 1

RECURSIVE Binomial(_, _)
Binomial(n, k) ==
    IF k = 0 THEN 1
    ELSE IF n = 0 THEN 0
    ELSE Binomial(n - 1, k - 1) + Binomial(n - 1, k)

\* the subsets iterate_subsets yielded, as sets, in order
YieldedSubsets ==
    [i \in DOMAIN selection_combinations |->
        Range(selection_combinations[i].sub_subjects)]

\* C10: for N subjects and a size k in 2..N, iterate_subsets yields exactly
\* C(N,k) pairs whose subsets are pairwise distinct as sets, each of size k,
\* every subject in the same number of them, each sub-assembly holding exactly
\* the rows whose subject is in its subset.
C10_IterateSubsets ==
    num_subjects >= 2 =>
        LET subjects == SubjectSet(assembly)
            yielded == selection_combinations
            subsets == YieldedSubsets
            rows == RowSet(assembly)
            occurrences == [s \in subjects |->
                Cardinality({i \in DOMAIN subsets : s \in subsets[i]})]
        IN  /\ num_subjects \in 2..Cardinality(subjects)
            /\ Len(yielded) = Binomial(Cardinality(subjects), num_subjects)
            /\ Cardinality(Range(subsets)) = Len(yielded)
            /\ \A i \in DOMAIN yielded :
                   /\ Len(yielded[i].sub_subjects) = num_subjects
                   /\ Cardinality(subsets[i]) = num_subjects
                   /\ subsets[i] \subseteq subjects
                   /\ RowSet(yielded[i].sub_assembly)
                          = {row \in rows : row.subject \in subsets[i]}
                   /\ Len(yielded[i].sub_assembly)
                          = Cardinality(RowSet(yielded[i].sub_assembly))
            /\ Cardinality(Range(occurrences)) = 1

\* the three pairs of size two of a three-subject assembly, in a set order
\* that is not the ascending one
C10_Witness ==
    /\ num_subjects = 2
    /\ Cardinality(SubjectSet(assembly)) = 3
    /\ Len(selection_combinations) = 3
    /\ subject_order = <<3, 1, 2>>

\* C8: collect and the top-level call are memoized on the identifier alone:
\* once collect has completed for an identifier, a later call with that
\* identifier, whatever its assembly and metric and also after a crash before
\* extrapolate ended, works on the table that first collect returned without
\* invoking the metric or the holdout ceiling; once the top-level call has
\* completed for an identifier it returns that first ceiling, computing nothing.
C8_MemoizedOnIdentifier ==
    entry = "__call__" =>
        /\ prior_collect =>
               /\ ~metric_invoked
               /\ ~holdout_invoked
               /\ pc \notin {"collect", "holdout"}
               /\ pc \in {"extrapolate", "neuroid"} =>
                      ceilings = collect_completed[identifier]
        /\ prior_call =>
               /\ pc = "done"
               /\ result = call_completed[identifier]
               /\ ~metric_invoked
               /\ ~holdout_invoked
               /\ ~fit_invoked

\* after a crash that followed a completed collect, a call with the same
\* identifier but a one-subject assembly and a metric that never overlaps
\* (which collect could not have finished on) ran to its ceiling
C8_Witness ==
    /\ entry = "__call__"
    /\ prior_collect
    /\ ~prior_call
    /\ pc = "done"
    /\ assembly = AssemblyOf(1)
    /\ metric = {NoOverlap}
    /\ result.kind = "ceiling"

\* the parameter table the converged rounds of a fit log make up
RECURSIVE ConvergedRounds(_)
ConvergedRounds(log) ==
    IF log = <<>> THEN <<>>
    ELSE LET n == Len(log)
             before == ConvergedRounds(SubSeq(log, 1, n - 1))
         IN  IF log[n].type = "params"
             THEN Append(before, [bootstrap |-> n - 1, v0 |-> log[n].v0,
                                  tau0 |-> log[n].tau0])
             ELSE before

\* C6: in extrapolate_neuroid a round whose fit raises RuntimeError is skipped,
\* no error surfacing and no default substituted: the bootstrapped-parameter
\* table holds exactly one (v0, tau0) entry, labelled with the round's index,
\* for each round that converged, and none for a failed round.
C6_FailedRoundsLeaveNoEntry ==
    /\ bootstrap_params = ConvergedRounds(fit_log)
    /\ pc = "neuroid" =>
           /\ Len(fit_log) = bootstrap
           /\ raised = NoException
    /\ (pc # "neuroid" /\ bootstrap_params # <<>>) =>
           /\ Len(fit_log) = num_bootstraps
           /\ all_bootstrap_params # <<>>
           /\ all_bootstrap_params[Len(all_bootstrap_params)].params
                  = bootstrap_params

\* a unit whose first round failed and whose second converged
C6_Witness ==
    /\ pc = "extrapolate"
    /\ neuroid = 1
    /\ Len(fit_log) = 2
    /\ fit_log[1] = RuntimeError
    /\ fit_log[2].type = "params"
    /\ Len(all_bootstrap_params) = 1
    /\ all_bootstrap_params[1].params[1].bootstrap = 1

UnitsIn(list) == {list[i].neuroid : i \in DOMAIN list}

\* C1: a unit for which no round converges is skipped and extrapolate still
\* returns an aggregate ceiling instead of raising, also when that happens for
\* every unit; a skipped unit is in none of the per-unit ceilings, the
\* bootstrapped-parameter table or the endpoint table.
C1_SkippedUnitsNeverCrash ==
    (entry = "extrapolate" /\ pc \in {"done", "raised"}
        /\ skipped_neuroids # {} /\ raised.type # "AssertionError") =>
        /\ pc = "done"
        /\ result.kind = "ceiling"
        /\ skipped_neuroids \cap UnitsIn(result.raw.neuroid_ceilings) = {}
        /\ skipped_neuroids \cap UnitsIn(result.raw.bootstrapped_params) = {}
        /\ skipped_neuroids \cap UnitsIn(result.raw.endpoint_x) = {}

\* C2: every per-unit score has error_low >= 0 and error_high >= 0.
C2_ErrorBarsNonNegative ==
    \A i \in DOMAIN neuroid_ceilings :
        /\ neuroid_ceilings[i].error_low >= 0
        /\ neuroid_ceilings[i].error_high >= 0

\* C9: ci_error(samples, center, confidence=0.95) returns center minus the
\* 2.5th percentile and the 97.5th percentile minus center, the levels being
\* 100*(1-confidence)/2 and 100*(1-(1-confidence)/2).
C9_CiErrorLevels ==
    ci_call # NoCiCall =>
        LET low == 50 * (1000 - Confidence)
            high == 100 * 1000 - 50 * (1000 - Confidence)
        IN  /\ ci_call.low = ci_call.center - nanpercentile(ci_call.samples, low)
            /\ ci_call.high = nanpercentile(ci_call.samples, high) - ci_call.center
====
